---- MODULE Spec2Model ----
(***************************************************************************)
(* Word Chain (src/word_chain.py): the ChainReaction link graph, the       *)
(* handcrafted puzzle catalog, the decoy builder and the sidebar handlers  *)
(* that call into the engine.                                              *)
(*                                                                         *)
(* Strings.  A Python string is modelled by the sequence of its parts: a   *)
(* plain tag "bone" is <<"bone">>, the f-string "decoy:{name}:{n}" is      *)
(* <<"decoy:", name, n>>, so startswith("decoy:") looks at the first part. *)
(* A formatted message is a record of its template text and the values     *)
(* substituted into it.  The order of str (used by sorted) is the code     *)
(* point order, tabulated in NameOrder for the names that occur.           *)
(***************************************************************************)
EXTENDS Integers, Sequences, FiniteSets, TLC

VARIABLES
    tiles,           \* ChainReaction.tiles: the dict name -> Tile, in insertion order
    edges,           \* ChainReaction.edges
    solution_edges,  \* ChainReaction.solution_edges
    max_degree,      \* ChainReaction.max_degree
    alias,           \* ChainReaction.edges and .solution_edges are one set object
    difficulty,      \* st.session_state.difficulty
    puzzle_index,    \* st.session_state.puzzle_index
    seed,            \* st.session_state.seed, identified with the stream random.seed(seed) starts
    message,         \* st.session_state.message
    revealed_tags,   \* st.session_state.revealed_tags
    use_daily,       \* st.session_state.use_daily
    last,            \* the last engine call: its arguments, its result, edges before it
    follow,          \* history: how the last call relates to the call before it
    pc               \* position of a scripted caller

gameVars == <<tiles, edges, solution_edges, max_degree, alias>>
sessVars == <<difficulty, puzzle_index, seed, message, revealed_tags, use_daily>>
histVars == <<last, follow, pc>>
vars == <<tiles, edges, solution_edges, max_degree, alias, difficulty, puzzle_index, seed,
          message, revealed_tags, use_daily, last, follow, pc>>

(***************************************************************************)
(* Bounds of the model.                                                    *)
(***************************************************************************)
MaxDegreeBound == 2   \* max_degree ranges over 0..MaxDegreeBound
MaxTiles == 5         \* registries of the shape check have 2..MaxTiles tiles
DecoySpan == 2        \* random.randint yields DecoyLo..DecoyLo+DecoySpan-1
MaxIndex == 5         \* a caller asks for the puzzles -MaxIndex..MaxIndex
MaxDay == 5           \* date.today().toordinal() ranges over 1..MaxDay
MaxOffset == 6        \* seed_offset ranges over -MaxOffset..MaxOffset
MaxEvents == 3        \* a session is followed for MaxEvents script runs

(***************************************************************************)
(* Strings and their order.                                                *)
(***************************************************************************)
NameOrder ==
    <<"Airport", "Ant", "Bee", "Bone", "Bread", "Breakfast", "Calcium", "Cat",
      "Clouds", "Coat", "Coffee", "Cow", "Doe", "Dog", "Dough", "Exercise",
      "Flour", "Fur", "Ghost", "Health", "Hotel", "Human", "Light", "Longevity",
      "Milk", "Oxygen", "Passport", "Picnic", "Plane", "Plant", "Sandwich",
      "Skyline", "Stars", "Sun", "Sunset", "T1", "T2", "T3", "T4", "T5", "T6",
      "Wheat", "Winter">>

\* the position of a string in the order of str
RankTable == [s \in {NameOrder[i] : i \in 1..Len(NameOrder)} |->
                CHOOSE i \in 1..Len(NameOrder) : NameOrder[i] = s]

Rank(s) == RankTable[s]

Difficulties == {"Easy", "Medium", "Hard"}

Tag(s) == <<s>>

Tile(name, tags) == [name |-> name, tags |-> tags]

\* normalize keeping the pair as given
normalize_as_given(a, b) == <<a, b>>

\* tuple(sorted((a, b)))
normalize(a, b) == IF Rank(a) <= Rank(b) THEN <<a, b>> ELSE <<b, a>>

is_real_tag(tag) == tag[1] # "decoy:"

(***************************************************************************)
(* Messages.                                                               *)
(***************************************************************************)
Msg(text) == [text |-> text, a |-> "", b |-> "", shared |-> {}]

M_NoTile == Msg("One or both tiles don't exist.")
M_Self == Msg("Cannot connect a tile to itself.")
M_Already == Msg("Those tiles are already connected.")
M_Degree == Msg("A tile would exceed the maximum of 2 connections.")
M_Hard == Msg("Hard mode: tiles must share exactly one real tag.")
M_NoTag == Msg("Those tiles don't share a logical link (no common tag).")
M_Linked(a, b, shared) == [text |-> "Linked", a |-> a, b |-> b, shared |-> shared]
M_NoLink == Msg("That link doesn't exist.")
M_Removed(a, b) == [text |-> "Removed link", a |-> a, b |-> b, shared |-> {}]
M_Incomplete == Msg("Not all tiles are connected into a single chain yet.")
M_Isolated == Msg("Some tiles are isolated.")
M_Shape == Msg("Chain must have exactly two ends; others should have two links.")
M_Disconnected == Msg("All tiles must be connected.")
M_Complete == Msg("Chain complete!")
M_Hint(a, b) == [text |-> "Try linking", a |-> a, b |-> b, shared |-> {}]
M_NoHints == Msg("No hints available.")

(***************************************************************************)
(* ChainReaction: queries.                                                 *)
(***************************************************************************)
TileNames == {tiles[i].name : i \in 1..Len(tiles)}

TagsOf(name) == tiles[CHOOSE i \in 1..Len(tiles) : tiles[i].name = name].tags

degree(node) == Cardinality({e \in edges : node = e[1] \/ node = e[2]})

\* share_tag with the real_only filter left out
share_tag_unfiltered(a, b, real_only) == TagsOf(a) \cap TagsOf(b)

share_tag(a, b, real_only) ==
    LET shared == TagsOf(a) \cap TagsOf(b)
    IN  IF real_only THEN {t \in shared : is_real_tag(t)} ELSE shared

\* can_connect with the degree test written > instead of >=
can_connect_gt(a, b, diff) ==
    IF a \notin TileNames \/ b \notin TileNames THEN [ok |-> FALSE, msg |-> M_NoTile]
    ELSE IF a = b THEN [ok |-> FALSE, msg |-> M_Self]
    ELSE IF normalize(a, b) \in edges THEN [ok |-> FALSE, msg |-> M_Already]
    ELSE IF degree(a) > max_degree \/ degree(b) > max_degree
         THEN [ok |-> FALSE, msg |-> M_Degree]
    ELSE LET shared == share_tag(a, b, diff = "Hard")
         IN  IF diff = "Hard"
             THEN IF Cardinality(shared) # 1 THEN [ok |-> FALSE, msg |-> M_Hard]
                  ELSE [ok |-> TRUE, msg |-> Msg("")]
             ELSE IF shared = {} THEN [ok |-> FALSE, msg |-> M_NoTag]
                  ELSE [ok |-> TRUE, msg |-> Msg("")]

\* can_connect with the degree test moved before the already-connected test
can_connect_degree_first(a, b, diff) ==
    IF a \notin TileNames \/ b \notin TileNames THEN [ok |-> FALSE, msg |-> M_NoTile]
    ELSE IF a = b THEN [ok |-> FALSE, msg |-> M_Self]
    ELSE IF degree(a) >= max_degree \/ degree(b) >= max_degree
         THEN [ok |-> FALSE, msg |-> M_Degree]
    ELSE IF normalize(a, b) \in edges THEN [ok |-> FALSE, msg |-> M_Already]
    ELSE LET shared == share_tag(a, b, diff = "Hard")
         IN  IF diff = "Hard"
             THEN IF Cardinality(shared) # 1 THEN [ok |-> FALSE, msg |-> M_Hard]
                  ELSE [ok |-> TRUE, msg |-> Msg("")]
             ELSE IF shared = {} THEN [ok |-> FALSE, msg |-> M_NoTag]
                  ELSE [ok |-> TRUE, msg |-> Msg("")]

\* can_connect with the self-link test moved before the existence test
can_connect_self_first(a, b, diff) ==
    IF a = b THEN [ok |-> FALSE, msg |-> M_Self]
    ELSE IF a \notin TileNames \/ b \notin TileNames THEN [ok |-> FALSE, msg |-> M_NoTile]
    ELSE IF normalize(a, b) \in edges THEN [ok |-> FALSE, msg |-> M_Already]
    ELSE IF degree(a) >= max_degree \/ degree(b) >= max_degree
         THEN [ok |-> FALSE, msg |-> M_Degree]
    ELSE LET shared == share_tag(a, b, diff = "Hard")
         IN  IF diff = "Hard"
             THEN IF Cardinality(shared) # 1 THEN [ok |-> FALSE, msg |-> M_Hard]
                  ELSE [ok |-> TRUE, msg |-> Msg("")]
             ELSE IF shared = {} THEN [ok |-> FALSE, msg |-> M_NoTag]
                  ELSE [ok |-> TRUE, msg |-> Msg("")]

can_connect(a, b, diff) ==
    IF a \notin TileNames \/ b \notin TileNames THEN [ok |-> FALSE, msg |-> M_NoTile]
    ELSE IF a = b THEN [ok |-> FALSE, msg |-> M_Self]
    ELSE IF normalize(a, b) \in edges THEN [ok |-> FALSE, msg |-> M_Already]
    ELSE IF degree(a) >= max_degree \/ degree(b) >= max_degree
         THEN [ok |-> FALSE, msg |-> M_Degree]
    ELSE LET shared == share_tag(a, b, diff = "Hard")
         IN  IF diff = "Hard"
             THEN IF Cardinality(shared) # 1 THEN [ok |-> FALSE, msg |-> M_Hard]
                  ELSE [ok |-> TRUE, msg |-> Msg("")]
             ELSE IF shared = {} THEN [ok |-> FALSE, msg |-> M_NoTag]
                  ELSE [ok |-> TRUE, msg |-> Msg("")]

(***************************************************************************)
(* ChainReaction: mutators, as functions of the current state giving the   *)
(* returned pair and the new edges.                                        *)
(***************************************************************************)
\* add_edge storing the link before it looks at the answer of can_connect
add_edge_store_first(a, b, diff) ==
    LET r == can_connect(a, b, diff)
    IN  IF r.ok
        THEN [ok |-> TRUE,
              msg |-> M_Linked(a, b, share_tag(a, b, diff = "Hard")),
              edges |-> edges \cup {normalize(a, b)}]
        ELSE [ok |-> FALSE, msg |-> r.msg, edges |-> edges \cup {normalize(a, b)}]

add_edge(a, b, diff) ==
    LET r == can_connect(a, b, diff)
    IN  IF r.ok
        THEN [ok |-> TRUE,
              msg |-> M_Linked(a, b, share_tag(a, b, diff = "Hard")),
              edges |-> edges \cup {normalize(a, b)}]
        ELSE [ok |-> FALSE, msg |-> r.msg, edges |-> edges]

\* remove_edge looking up the pair as given, not normalized
remove_edge_as_given(a, b) ==
    LET edge == <<a, b>>
    IN  IF edge \notin edges
        THEN [ok |-> FALSE, msg |-> M_NoLink, edges |-> edges]
        ELSE [ok |-> TRUE, msg |-> M_Removed(a, b), edges |-> edges \ {edge}]

remove_edge(a, b) ==
    LET edge == normalize(a, b)
    IN  IF edge \notin edges
        THEN [ok |-> FALSE, msg |-> M_NoLink, edges |-> edges]
        ELSE [ok |-> TRUE, msg |-> M_Removed(a, b), edges |-> edges \ {edge}]

\* auto_solve binding edges to the reference set itself instead of a copy of it
auto_solve_alias == [set |-> solution_edges, alias |-> TRUE]

\* self.edges = set(self.solution_edges): a new set object with the same elements
auto_solve == [set |-> solution_edges, alias |-> FALSE]

\* self.edges.add(...), self.edges.remove(...): the set object that edges names is
\* changed in place, and solution_edges with it when it names the same object
InPlace(new_edges) ==
    /\ edges' = new_edges
    /\ solution_edges' = IF alias THEN new_edges ELSE solution_edges
    /\ alias' = alias

\* self.edges = obj: edges names another set object, the reference set is not touched
Rebind(obj) ==
    /\ edges' = obj.set
    /\ alias' = obj.alias
    /\ solution_edges' = solution_edges

(***************************************************************************)
(* is_complete_chain.                                                      *)
(***************************************************************************)
\* adj = {name: set() for name in tiles}; for a, b in edges: adj[a].add(b); adj[b].add(a)
Adj == [name \in TileNames |->
          {e[2] : e \in {f \in edges : f[1] = name}}
          \cup {e[1] : e \in {f \in edges : f[2] = name}}]

\* [k for k, d in degs.items() if d == deg], in the order of the dict
WithDegree(deg) == SelectSeq([i \in 1..Len(tiles) |-> tiles[i].name],
                             LAMBDA k : Cardinality(Adj[k]) = deg)

\* stack.extend(S): the elements of a set, pushed in the order the set yields them
RECURSIVE SetToSeq(_)
SetToSeq(S) == IF S = {} THEN <<>>
               ELSE LET x == CHOOSE y \in S : TRUE IN <<x>> \o SetToSeq(S \ {x})

\* the traversal without stack.extend: it ends after the first tile
Traverse_no_extend(adj, stack, visited) ==
    IF stack = <<>> THEN visited ELSE visited \cup {stack[Len(stack)]}

\* while stack: cur = stack.pop(); ...
RECURSIVE Traverse(_, _, _)
Traverse(adj, stack, visited) ==
    IF stack = <<>> THEN visited
    ELSE LET cur == stack[Len(stack)]
             rest == SubSeq(stack, 1, Len(stack) - 1)
         IN  IF cur \in visited THEN Traverse(adj, rest, visited)
             ELSE Traverse(adj, rest \o SetToSeq(adj[cur] \ (visited \cup {cur})),
                           visited \cup {cur})

\* is_complete_chain without the traversal
is_complete_chain_no_traversal ==
    LET n == Len(tiles)
        ones == WithDegree(1)
        twos == WithDegree(2)
        zeros == WithDegree(0)
    IN  IF Cardinality(edges) # n - 1 THEN [ok |-> FALSE, msg |-> M_Incomplete]
        ELSE IF zeros # <<>> THEN [ok |-> FALSE, msg |-> M_Isolated]
        ELSE IF Len(ones) # 2 \/ Len(twos) # n - 2 THEN [ok |-> FALSE, msg |-> M_Shape]
        ELSE [ok |-> TRUE, msg |-> M_Complete]

\* is_complete_chain asking for as many links as tiles
is_complete_chain_count_n ==
    LET n == Len(tiles)
        ones == WithDegree(1)
        twos == WithDegree(2)
        zeros == WithDegree(0)
    IN  IF Cardinality(edges) # n THEN [ok |-> FALSE, msg |-> M_Incomplete]
        ELSE IF zeros # <<>> THEN [ok |-> FALSE, msg |-> M_Isolated]
        ELSE IF Len(ones) # 2 \/ Len(twos) # n - 2 THEN [ok |-> FALSE, msg |-> M_Shape]
        ELSE IF Cardinality(Traverse(Adj, <<ones[1]>>, {})) # n
             THEN [ok |-> FALSE, msg |-> M_Disconnected]
        ELSE [ok |-> TRUE, msg |-> M_Complete]

is_complete_chain ==
    LET n == Len(tiles)
        ones == WithDegree(1)
        twos == WithDegree(2)
        zeros == WithDegree(0)
    IN  IF Cardinality(edges) # n - 1 THEN [ok |-> FALSE, msg |-> M_Incomplete]
        ELSE IF zeros # <<>> THEN [ok |-> FALSE, msg |-> M_Isolated]
        ELSE IF Len(ones) # 2 \/ Len(twos) # n - 2 THEN [ok |-> FALSE, msg |-> M_Shape]
        ELSE IF Cardinality(Traverse(Adj, <<ones[1]>>, {})) # n
             THEN [ok |-> FALSE, msg |-> M_Disconnected]
        ELSE [ok |-> TRUE, msg |-> M_Complete]

(***************************************************************************)
(* give_hint.                                                              *)
(***************************************************************************)
\* the order of tuples of two strings
EdgeLess(e, f) == \/ Rank(e[1]) < Rank(f[1])
                  \/ e[1] = f[1] /\ Rank(e[2]) < Rank(f[2])

\* sorted(S) for a set of pairs
RECURSIVE sorted_edges(_)
sorted_edges(S) ==
    IF S = {} THEN <<>>
    ELSE LET m == CHOOSE e \in S : \A f \in S \ {e} : EdgeLess(e, f)
         IN  <<m>> \o sorted_edges(S \ {m})

RECURSIVE HintScan(_, _)
HintScan(s, i) == IF i > Len(s) THEN M_NoHints
                  ELSE IF s[i] \notin edges THEN M_Hint(s[i][1], s[i][2])
                  ELSE HintScan(s, i + 1)

\* give_hint walking the sorted solution from its end
RECURSIVE HintScanBack(_, _)
HintScanBack(s, i) == IF i < 1 THEN M_NoHints
                      ELSE IF s[i] \notin edges THEN M_Hint(s[i][1], s[i][2])
                      ELSE HintScanBack(s, i - 1)

give_hint_reversed == HintScanBack(sorted_edges(solution_edges), Len(sorted_edges(solution_edges)))

give_hint == HintScan(sorted_edges(solution_edges), 1)

(***************************************************************************)
(* Construction.                                                           *)
(***************************************************************************)
\* ChainReaction(tiles, solution_edges, max_degree); the tile names are distinct,
\* so the dict holds the tiles in the order of the list
ChainReaction(ts, sol, md) ==
    [tiles |-> ts,
     edges |-> {},
     solution_edges |-> {normalize(e[1], e[2]) : e \in sol},
     max_degree |-> md,
     alias |-> FALSE]

(***************************************************************************)
(* Registries handed to the constructor by a caller of the engine.         *)
(***************************************************************************)
Unknown == "Ghost"   \* a name no registry holds

\* three tiles of puzzle 1
ExampleTiles ==
    <<Tile("Dog", {Tag("canine"), Tag("pet"), Tag("bone")}),
      Tile("Bone", {Tag("bone"), Tag("calcium")}),
      Tile("Cat", {Tag("feline"), Tag("fur")})>>

SharedDecoy == <<"decoy:", "Any", 1000>>

\* pairs sharing two real tags, one real tag, one real and one decoy tag, a decoy only
MixedTiles ==
    <<Tile("Ant", {Tag("a"), Tag("b"), SharedDecoy}),
      Tile("Bee", {Tag("a"), Tag("b"), Tag("c")}),
      Tile("Cow", {Tag("c"), SharedDecoy}),
      Tile("Doe", {Tag("a"), SharedDecoy})>>

Registries ==
    {[tiles |-> ExampleTiles, sol |-> {<<"Dog", "Bone">>}],
     [tiles |-> MixedTiles, sol |-> {<<"Doe", "Ant">>, <<"Doe", "Bee">>, <<"Cow", "Bee">>}]}

NoCall == [op |-> "", a |-> "", b |-> "", diff |-> "", ok |-> FALSE,
           msg |-> Msg(""), before |-> {}]

NoFollow == [kind |-> "", origin |-> {}]

Call(op, a, b, diff, ok, msg) ==
    [op |-> op, a |-> a, b |-> b, diff |-> diff, ok |-> ok, msg |-> msg, before |-> edges]

\* an engine used without a session
NoSession ==
    /\ difficulty = "Easy"
    /\ puzzle_index = 0
    /\ seed = [first |-> 0, step |-> 0]
    /\ message = Msg("")
    /\ revealed_tags = {}
    /\ use_daily = FALSE

Init ==
    /\ \E r \in Registries, md \in 0..MaxDegreeBound :
         LET g == ChainReaction(r.tiles, r.sol, md)
         IN  /\ tiles = g.tiles
             /\ edges = g.edges
             /\ solution_edges = g.solution_edges
             /\ max_degree = g.max_degree
             /\ alias = g.alias
    /\ NoSession
    /\ last = NoCall
    /\ follow = NoFollow
    /\ pc = 0

(***************************************************************************)
(* Calls of the engine.                                                    *)
(***************************************************************************)
Args == TileNames \cup {Unknown}

AddEdge(a, b, diff) ==
    LET r == add_edge(a, b, diff)
    IN  /\ InPlace(r.edges)
        /\ last' = Call("add_edge", a, b, diff, r.ok, r.msg)
        /\ follow' = IF /\ last.op = "add_edge" /\ last.ok
                        /\ last.a = a /\ last.b = b /\ last.diff = diff
                     THEN [kind |-> "add_add", origin |-> last.before]
                     ELSE NoFollow
        /\ UNCHANGED <<tiles, max_degree, sessVars, pc>>

RemoveEdge(a, b) ==
    LET r == remove_edge(a, b)
    IN  /\ InPlace(r.edges)
        /\ last' = Call("remove_edge", a, b, "", r.ok, r.msg)
        /\ follow' = IF last.op = "add_edge" /\ last.ok /\ last.a = a /\ last.b = b
                     THEN [kind |-> "add_remove", origin |-> last.before]
                     ELSE NoFollow
        /\ UNCHANGED <<tiles, max_degree, sessVars, pc>>

GiveHint ==
    /\ last' = Call("give_hint", "", "", "", TRUE, give_hint)
    /\ follow' = NoFollow
    /\ UNCHANGED <<gameVars, sessVars, pc>>

IsCompleteChain ==
    LET r == is_complete_chain
    IN  /\ last' = Call("is_complete_chain", "", "", "", r.ok, r.msg)
        /\ follow' = NoFollow
        /\ UNCHANGED <<gameVars, sessVars, pc>>

\* game.edges = set()
ResetLinks ==
    /\ Rebind([set |-> {}, alias |-> FALSE])
    /\ last' = Call("reset", "", "", "", TRUE, Msg(""))
    /\ follow' = NoFollow
    /\ UNCHANGED <<tiles, max_degree, sessVars, pc>>

Next ==
    \/ \E a \in Args, b \in Args, diff \in Difficulties : AddEdge(a, b, diff)
    \/ \E a \in Args, b \in Args : RemoveEdge(a, b)
    \/ GiveHint
    \/ IsCompleteChain
    \/ ResetLinks

Spec == Init /\ [][Next]_vars

(***************************************************************************)
(* The shape check on arbitrary links: a caller constructs the engine with *)
(* any set of canonical pairs as its solution, fills it in and checks it.  *)
(***************************************************************************)
DefaultMaxDegree == 2

ShapeNames == <<"T1", "T2", "T3", "T4", "T5", "T6">>

ShapeTiles(n) == [i \in 1..n |-> Tile(ShapeNames[i], {Tag("k")})]

\* the sorted pairs of two distinct names among the first n
CanonicalPairs(n) ==
    {p \in {<<ShapeNames[i], ShapeNames[j]>> : i \in 1..n, j \in 1..n} :
        p[1] # p[2] /\ normalize(p[1], p[2]) = p}

InitShape ==
    /\ \E n \in 2..MaxTiles :
         \E sol \in SUBSET CanonicalPairs(n) :
            LET g == ChainReaction(ShapeTiles(n), sol, DefaultMaxDegree)
            IN  /\ tiles = g.tiles
                /\ edges = g.edges
                /\ solution_edges = g.solution_edges
                /\ max_degree = g.max_degree
                /\ alias = g.alias
    /\ NoSession
    /\ last = NoCall
    /\ follow = NoFollow
    /\ pc = 0

AutoSolve ==
    /\ Rebind(auto_solve)
    /\ last' = Call("auto_solve", "", "", "", TRUE, Msg(""))
    /\ follow' = NoFollow
    /\ UNCHANGED <<tiles, max_degree, sessVars, pc>>

NextShape ==
    \/ AutoSolve
    \/ IsCompleteChain

SpecShape == InitShape /\ [][NextShape]_vars

(***************************************************************************)
(* Every call of the engine, auto_solve included, on the small registries. *)
(***************************************************************************)
NextEngine ==
    \/ \E a \in Args, b \in Args, diff \in Difficulties : AddEdge(a, b, diff)
    \/ \E a \in Args, b \in Args : RemoveEdge(a, b)
    \/ GiveHint
    \/ IsCompleteChain
    \/ ResetLinks
    \/ AutoSolve

SpecEngine == Init /\ [][NextEngine]_vars

(***************************************************************************)
(* The handcrafted puzzles.  A solution is a set; solN_order lists its     *)
(* links in the order the source writes them, the order of the chain.      *)
(***************************************************************************)
Range(q) == {q[i] : i \in 1..Len(q)}

tiles1 ==
    <<Tile("Dog", {Tag("canine"), Tag("pet"), Tag("bone")}),
      Tile("Bone", {Tag("bone"), Tag("calcium")}),
      Tile("Calcium", {Tag("calcium"), Tag("milk")}),
      Tile("Milk", {Tag("milk"), Tag("feline")}),
      Tile("Cat", {Tag("feline"), Tag("fur")}),
      Tile("Fur", {Tag("fur"), Tag("coat")}),
      Tile("Coat", {Tag("coat"), Tag("winter")}),
      Tile("Winter", {Tag("winter"), Tag("season")})>>

sol1_order ==
    <<<<"Dog", "Bone">>, <<"Bone", "Calcium">>, <<"Calcium", "Milk">>,
      <<"Milk", "Cat">>, <<"Cat", "Fur">>, <<"Fur", "Coat">>, <<"Coat", "Winter">>>>

sol1 == Range(sol1_order)

tiles2 ==
    <<Tile("Sun", {Tag("star"), Tag("sunlight")}),
      Tile("Light", {Tag("sunlight"), Tag("photosynthesis"), Tag("illumination")}),
      Tile("Plant", {Tag("photosynthesis"), Tag("green")}),
      Tile("Oxygen", {Tag("oxygen"), Tag("gas")}),
      Tile("Human", {Tag("breath"), Tag("person")}),
      Tile("Exercise", {Tag("fitness"), Tag("breath")}),
      Tile("Health", {Tag("fitness"), Tag("wellness")}),
      Tile("Longevity", {Tag("wellness"), Tag("aging")})>>

sol2_order ==
    <<<<"Sun", "Light">>, <<"Light", "Plant">>, <<"Plant", "Oxygen">>,
      <<"Oxygen", "Human">>, <<"Human", "Exercise">>, <<"Exercise", "Health">>,
      <<"Health", "Longevity">>>>

sol2 == Range(sol2_order)

tiles3 ==
    <<Tile("Wheat", {Tag("grain"), Tag("flour")}),
      Tile("Flour", {Tag("flour"), Tag("dough")}),
      Tile("Dough", {Tag("dough"), Tag("yeast")}),
      Tile("Bread", {Tag("yeast"), Tag("bakery")}),
      Tile("Sandwich", {Tag("bakery"), Tag("lunch")}),
      Tile("Picnic", {Tag("lunch"), Tag("outdoor")}),
      Tile("Sunset", {Tag("outdoor"), Tag("evening")}),
      Tile("Stars", {Tag("evening"), Tag("night")})>>

sol3_order ==
    <<<<"Wheat", "Flour">>, <<"Flour", "Dough">>, <<"Dough", "Bread">>,
      <<"Bread", "Sandwich">>, <<"Sandwich", "Picnic">>, <<"Picnic", "Sunset">>,
      <<"Sunset", "Stars">>>>

sol3 == Range(sol3_order)

tiles4 ==
    <<Tile("Passport", {Tag("id"), Tag("travel")}),
      Tile("Airport", {Tag("travel"), Tag("flight")}),
      Tile("Plane", {Tag("flight"), Tag("wing")}),
      Tile("Clouds", {Tag("wing"), Tag("sky")}),
      Tile("Skyline", {Tag("sky"), Tag("city")}),
      Tile("Hotel", {Tag("city"), Tag("stay")}),
      Tile("Breakfast", {Tag("stay"), Tag("meal")}),
      Tile("Coffee", {Tag("meal"), Tag("caffeine")})>>

sol4_order ==
    <<<<"Passport", "Airport">>, <<"Airport", "Plane">>, <<"Plane", "Clouds">>,
      <<"Clouds", "Skyline">>, <<"Skyline", "Hotel">>, <<"Hotel", "Breakfast">>,
      <<"Breakfast", "Coffee">>>>

sol4 == Range(sol4_order)

PUZZLES ==
    <<[tiles |-> tiles1, sol |-> sol1], [tiles |-> tiles2, sol |-> sol2],
      [tiles |-> tiles3, sol |-> sol3], [tiles |-> tiles4, sol |-> sol4]>>

SolutionOrder == <<sol1_order, sol2_order, sol3_order, sol4_order>>

(***************************************************************************)
(* Decoys and puzzle building.  random.seed(seed) fixes the stream of      *)
(* numbers the following random.randint calls return; a seed is identified *)
(* with that stream.  The streams of the model are those that start at any *)
(* value and move on by a fixed step, 0 included, within the DecoySpan     *)
(* values: equal draws and different draws for one tile both occur.        *)
(***************************************************************************)
DecoyLo == 1000

Streams == [first : 0..(DecoySpan - 1), step : 0..(DecoySpan - 1)]

\* the k-th random.randint(1000, 9999) after random.seed(seed)
Draw(stream, k) == DecoyLo + ((stream.first + (k - 1) * stream.step) % DecoySpan)

\* add_decoys_non_overlapping writing its tags without the name of the tile
add_decoys_unnamed(ts, n_decoys_each, stream) ==
    [i \in 1..Len(ts) |->
        Tile(ts[i].name,
             ts[i].tags \cup {<<"decoy:", "", Draw(stream, (i - 1) * n_decoys_each + j)>> :
                                 j \in 1..n_decoys_each})]

add_decoys_non_overlapping(ts, n_decoys_each, stream) ==
    [i \in 1..Len(ts) |->
        Tile(ts[i].name,
             ts[i].tags \cup {<<"decoy:", ts[i].name, Draw(stream, (i - 1) * n_decoys_each + j)>> :
                                 j \in 1..n_decoys_each})]

\* build_puzzle_by_index wrapping abs(idx) instead of idx
build_puzzle_by_index_abs(idx, diff, stream) ==
    LET base == PUZZLES[((IF idx < 0 THEN -idx ELSE idx) % Len(PUZZLES)) + 1]
        ts == IF diff \in {"Medium", "Hard"}
              THEN add_decoys_non_overlapping(base.tiles,
                                              IF diff = "Medium" THEN 1 ELSE 2, stream)
              ELSE base.tiles
    IN  ChainReaction(ts, base.sol, DefaultMaxDegree)

build_puzzle_by_index(idx, diff, stream) ==
    LET base == PUZZLES[(idx % Len(PUZZLES)) + 1]
        ts == IF diff \in {"Medium", "Hard"}
              THEN add_decoys_non_overlapping(base.tiles,
                                              IF diff = "Medium" THEN 1 ELSE 2, stream)
              ELSE base.tiles
    IN  ChainReaction(ts, base.sol, DefaultMaxDegree)

\* (date.today().toordinal() + seed_offset) % len(PUZZLES); % of Python with a
\* positive right side is the remainder of the floored division, as % here
daily_index(today, seed_offset) == (today + seed_offset) % Len(PUZZLES)

Days == 1..MaxDay

(***************************************************************************)
(* Puzzle selection: a caller that builds the game for any index, or for   *)
(* the index daily_index gives for the day and an offset.                  *)
(***************************************************************************)
\* the session as the script initialises it
InitSelect ==
    /\ \E stream \in Streams :
         LET g == build_puzzle_by_index(0, "Easy", stream)
         IN  /\ tiles = g.tiles
             /\ edges = g.edges
             /\ solution_edges = g.solution_edges
             /\ max_degree = g.max_degree
             /\ alias = g.alias
             /\ seed = stream
    /\ difficulty = "Easy"
    /\ puzzle_index = 0
    /\ message = Msg("")
    /\ revealed_tags = {}
    /\ use_daily = FALSE
    /\ last = NoCall
    /\ follow = NoFollow
    /\ pc = 0

\* the game replaced by the one built for idx
Rebuild(idx, diff, stream) ==
    LET g == build_puzzle_by_index(idx, diff, stream)
    IN  /\ tiles' = g.tiles
        /\ edges' = g.edges
        /\ solution_edges' = g.solution_edges
        /\ max_degree' = g.max_degree
        /\ alias' = g.alias

BuildByIndex(idx, diff) ==
    /\ Rebuild(idx, diff, seed)
    /\ puzzle_index' = idx
    /\ difficulty' = diff
    /\ last' = [NoCall EXCEPT !.op = "build_puzzle_by_index"]
    /\ UNCHANGED <<seed, message, revealed_tags, use_daily, follow, pc>>

BuildDaily(today, seed_offset) ==
    LET idx == daily_index(today, seed_offset)
    IN  /\ Rebuild(idx, difficulty, seed)
        /\ puzzle_index' = idx
        /\ last' = [op |-> "daily_index", today |-> today, seed_offset |-> seed_offset]
        /\ UNCHANGED <<difficulty, seed, message, revealed_tags, use_daily, follow, pc>>

NextSelect ==
    \/ \E idx \in (-MaxIndex)..MaxIndex, diff \in Difficulties : BuildByIndex(idx, diff)
    \/ \E today \in Days, seed_offset \in (-MaxOffset)..MaxOffset :
          BuildDaily(today, seed_offset)

SpecSelect == InitSelect /\ [][NextSelect]_vars

(***************************************************************************)
(* Play on a catalog puzzle: the engine built for a puzzle index, a        *)
(* difficulty and a seed, then any calls with the difficulty it was built  *)
(* for, by a caller that keeps the name of its last call only.             *)
(***************************************************************************)
InitCatalog ==
    /\ \E idx \in 0..(Len(PUZZLES) - 1), diff \in Difficulties, stream \in Streams :
         LET g == build_puzzle_by_index(idx, diff, stream)
         IN  /\ tiles = g.tiles
             /\ edges = g.edges
             /\ solution_edges = g.solution_edges
             /\ max_degree = g.max_degree
             /\ alias = g.alias
             /\ difficulty = diff
             /\ puzzle_index = idx
             /\ seed = stream
    /\ message = Msg("")
    /\ revealed_tags = {}
    /\ use_daily = FALSE
    /\ last = NoCall
    /\ follow = NoFollow
    /\ pc = 0

Played(op) == [NoCall EXCEPT !.op = op]

PlayAdd(a, b) ==
    /\ InPlace(add_edge(a, b, difficulty).edges)
    /\ last' = Played("add_edge")
    /\ UNCHANGED <<tiles, max_degree, sessVars, follow, pc>>

PlayRemove(a, b) ==
    /\ InPlace(remove_edge(a, b).edges)
    /\ last' = Played("remove_edge")
    /\ UNCHANGED <<tiles, max_degree, sessVars, follow, pc>>

PlayAutoSolve ==
    /\ Rebind(auto_solve)
    /\ last' = Played("auto_solve")
    /\ UNCHANGED <<tiles, max_degree, sessVars, follow, pc>>

PlayReset ==
    /\ Rebind([set |-> {}, alias |-> FALSE])
    /\ last' = Played("reset")
    /\ UNCHANGED <<tiles, max_degree, sessVars, follow, pc>>

NextCatalog ==
    \/ \E a \in TileNames, b \in TileNames : PlayAdd(a, b)
    \/ \E a \in TileNames, b \in TileNames : PlayRemove(a, b)
    \/ PlayAutoSolve
    \/ PlayReset

SpecCatalog == InitCatalog /\ [][NextCatalog]_vars

(***************************************************************************)
(* Free linking: tiles that all share one tag, any add_edge and            *)
(* remove_edge calls in Easy, and the check of the chain.                  *)
(***************************************************************************)
InitLinks ==
    /\ \E n \in 2..MaxTiles :
         LET g == ChainReaction(ShapeTiles(n),
                                {<<ShapeNames[i], ShapeNames[i + 1]>> : i \in 1..(n - 1)},
                                DefaultMaxDegree)
         IN  /\ tiles = g.tiles
             /\ edges = g.edges
             /\ solution_edges = g.solution_edges
             /\ max_degree = g.max_degree
             /\ alias = g.alias
    /\ NoSession
    /\ last = NoCall
    /\ follow = NoFollow
    /\ pc = 0

NextLinks ==
    \/ \E a \in TileNames, b \in TileNames : PlayAdd(a, b)
    \/ \E a \in TileNames, b \in TileNames : PlayRemove(a, b)
    \/ IsCompleteChain

SpecLinks == InitLinks /\ [][NextLinks]_vars

(***************************************************************************)
(* A caller that links the reference solution in the order of the chain    *)
(* and then checks the chain.                                              *)
(***************************************************************************)
ChainLen == Len(SolutionOrder[(puzzle_index % Len(PUZZLES)) + 1])

LinkNext ==
    /\ pc < ChainLen
    /\ LET e == SolutionOrder[(puzzle_index % Len(PUZZLES)) + 1][pc + 1]
           r == add_edge(e[1], e[2], difficulty)
       IN  /\ InPlace(r.edges)
           /\ last' = Call("add_edge", e[1], e[2], difficulty, r.ok, r.msg)
    /\ pc' = pc + 1
    /\ UNCHANGED <<tiles, max_degree, sessVars, follow>>

CheckChain ==
    /\ pc = ChainLen
    /\ LET r == is_complete_chain
       IN  last' = Call("is_complete_chain", "", "", "", r.ok, r.msg)
    /\ pc' = pc + 1
    /\ UNCHANGED <<gameVars, sessVars, follow>>

NextInOrder ==
    \/ LinkNext
    \/ CheckChain

SpecInOrder == InitCatalog /\ [][NextInOrder]_vars

(***************************************************************************)
(* A caller that follows the hints: give_hint, then add_edge on the pair   *)
(* the hint names, tileCount - 1 times; then give_hint once more and        *)
(* is_complete_chain.  pc counts the calls made.                           *)
(***************************************************************************)
HintRounds == Len(tiles) - 1

HintAsk ==
    /\ pc % 2 = 0
    /\ pc <= 2 * HintRounds
    /\ last' = Call("give_hint", "", "", "", TRUE, give_hint)
    /\ pc' = pc + 1
    /\ UNCHANGED <<gameVars, sessVars, follow>>

HintLink ==
    /\ pc % 2 = 1
    /\ pc < 2 * HintRounds
    /\ last.op = "give_hint"
    /\ last.msg.text = "Try linking"
    /\ LET r == add_edge(last.msg.a, last.msg.b, difficulty)
       IN  /\ InPlace(r.edges)
           /\ last' = Call("add_edge", last.msg.a, last.msg.b, difficulty, r.ok, r.msg)
    /\ pc' = pc + 1
    /\ UNCHANGED <<tiles, max_degree, sessVars, follow>>

HintCheck ==
    /\ pc = 2 * HintRounds + 1
    /\ LET r == is_complete_chain
       IN  last' = Call("is_complete_chain", "", "", "", r.ok, r.msg)
    /\ pc' = pc + 1
    /\ UNCHANGED <<gameVars, sessVars, follow>>

NextHints ==
    \/ HintAsk
    \/ HintLink
    \/ HintCheck

SpecHints == InitCatalog /\ [][NextHints]_vars

(***************************************************************************)
(* The session.  Every event of the page (a widget changed, a button       *)
(* pressed) runs the script once, from the difficulty box down to the      *)
(* Reveal button; an action below is one such run.  pc counts the runs.    *)
(***************************************************************************)
M_NewPuzzle == Msg("New puzzle loaded.")
M_Filled == Msg("Filled in the intended solution.")
M_Cleared == Msg("Cleared all links.")
M_Revealed(name) == [text |-> "Revealed tags for", a |-> name, b |-> "", shared |-> {}]

\* st.session_state.game as a value
Game == [tiles |-> tiles, edges |-> edges, solution_edges |-> solution_edges,
         max_degree |-> max_degree, alias |-> alias]

NamesOf(g) == {g.tiles[i].name : i \in 1..Len(g.tiles)}

\* the days date.today() can give in a run that reads it; a run that does not
\* call daily_index is the same for every day
DaysRead(daily) == IF daily THEN Days ELSE {1}

\* the setup part that rebuilds the game for another puzzle, not for another difficulty
Setup_keep_on_difficulty(d, daily, s, today) ==
    LET idx == IF daily /\ daily_index(today, 0) # puzzle_index
               THEN daily_index(today, 0) ELSE puzzle_index
        rebuilt == idx # puzzle_index
    IN  [difficulty |-> d,
         use_daily |-> daily,
         puzzle_index |-> idx,
         seed |-> IF daily THEN seed ELSE s,
         rebuilt |-> rebuilt,
         game |-> IF rebuilt THEN build_puzzle_by_index(idx, d, seed) ELSE Game,
         revealed_tags |-> IF rebuilt THEN {} ELSE revealed_tags,
         message |-> IF rebuilt THEN Msg("") ELSE message]

\* The setup part of a run.  d, daily and s are what the difficulty box, the
\* daily box and the seed box return, today is the day.  Both rebuilds read the
\* seed of the session before the seed box stores its value.
Setup(d, daily, s, today) ==
    LET idx == IF daily /\ daily_index(today, 0) # puzzle_index
               THEN daily_index(today, 0) ELSE puzzle_index
        rebuilt == d # difficulty \/ idx # puzzle_index
    IN  [difficulty |-> d,
         use_daily |-> daily,
         puzzle_index |-> idx,
         seed |-> IF daily THEN seed ELSE s,
         rebuilt |-> rebuilt,
         game |-> IF rebuilt THEN build_puzzle_by_index(idx, d, seed) ELSE Game,
         revealed_tags |-> IF rebuilt THEN {} ELSE revealed_tags,
         message |-> IF rebuilt THEN Msg("") ELSE message]

\* the setup part of a run in which no setup widget was touched
SetupIdle(today) == Setup(difficulty, use_daily, seed, today)

\* the session at the end of a run
Store(su, g, rev, msg, op, replaced) ==
    /\ tiles' = g.tiles
    /\ edges' = g.edges
    /\ solution_edges' = g.solution_edges
    /\ max_degree' = g.max_degree
    /\ alias' = g.alias
    /\ difficulty' = su.difficulty
    /\ puzzle_index' = su.puzzle_index
    /\ seed' = su.seed
    /\ use_daily' = su.use_daily
    /\ revealed_tags' = rev
    /\ message' = msg
    /\ last' = Played(op)
    /\ follow' = IF replaced THEN [kind |-> "replaced", origin |-> edges] ELSE follow
    /\ pc' = pc + 1

\* g after its set object edges was changed in place
Changed(g, new_edges) ==
    [g EXCEPT !.edges = new_edges,
              !.solution_edges = IF g.alias THEN new_edges ELSE @]

(***************************************************************************)
(* The engine on the game a run has just built: no links, every degree 0.  *)
(***************************************************************************)
TagsIn(g, name) == g.tiles[CHOOSE i \in 1..Len(g.tiles) : g.tiles[i].name = name].tags

add_edge_fresh(g, a, b, diff) ==
    LET both == TagsIn(g, a) \cap TagsIn(g, b)
        shared == IF diff = "Hard" THEN {t \in both : is_real_tag(t)} ELSE both
        rejected(msg) == [ok |-> FALSE, msg |-> msg, edges |-> {}]
    IN  IF a \notin NamesOf(g) \/ b \notin NamesOf(g) THEN rejected(M_NoTile)
        ELSE IF a = b THEN rejected(M_Self)
        ELSE IF 0 >= g.max_degree THEN rejected(M_Degree)
        ELSE IF diff = "Hard" /\ Cardinality(shared) # 1 THEN rejected(M_Hard)
        ELSE IF diff # "Hard" /\ shared = {} THEN rejected(M_NoTag)
        ELSE [ok |-> TRUE, msg |-> M_Linked(a, b, shared), edges |-> {normalize(a, b)}]

give_hint_fresh(g) ==
    LET s == sorted_edges(g.solution_edges)
    IN  IF s = <<>> THEN M_NoHints ELSE M_Hint(s[1][1], s[1][2])

is_complete_chain_fresh(g) ==
    IF Len(g.tiles) # 1 THEN [ok |-> FALSE, msg |-> M_Incomplete]
    ELSE [ok |-> FALSE, msg |-> M_Isolated]

(***************************************************************************)
(* The runs, one per event.                                                *)
(***************************************************************************)
\* another difficulty was selected
SessDifficulty(d, today) ==
    /\ pc < MaxEvents
    /\ d # difficulty
    /\ LET su == Setup(d, use_daily, seed, today)
       IN  Store(su, su.game, su.revealed_tags, su.message, "difficulty", su.rebuilt)

\* the daily box was ticked or cleared
SessDaily(today) ==
    /\ pc < MaxEvents
    /\ LET su == Setup(difficulty, ~use_daily, seed, today)
       IN  Store(su, su.game, su.revealed_tags, su.message, "daily", su.rebuilt)

\* another seed was entered; the box is there only when the daily box is clear
SessSeed(s) ==
    /\ pc < MaxEvents
    /\ ~use_daily
    /\ s # seed
    /\ LET su == Setup(difficulty, use_daily, s, 1)
       IN  Store(su, su.game, su.revealed_tags, su.message, "seed", su.rebuilt)

\* Prev puzzle (step -1) and Next puzzle (step 1), disabled when the daily box is ticked
SessStep(step) ==
    /\ pc < MaxEvents
    /\ ~use_daily
    /\ LET su == SetupIdle(1)
           idx == (su.puzzle_index + step) % Len(PUZZLES)
       IN  Store([su EXCEPT !.puzzle_index = idx],
                 build_puzzle_by_index(idx, su.difficulty, su.seed),
                 {}, Msg(""), IF step < 0 THEN "prev" ELSE "next", TRUE)

SessNew(today) ==
    /\ pc < MaxEvents
    /\ LET su == SetupIdle(today)
       IN  Store(su, build_puzzle_by_index(su.puzzle_index, su.difficulty, su.seed),
                 {}, M_NewPuzzle, "new", TRUE)

SessLink(a, b, today) ==
    /\ pc < MaxEvents
    /\ LET su == SetupIdle(today)
           r == IF su.rebuilt THEN add_edge_fresh(su.game, a, b, su.difficulty)
                ELSE add_edge(a, b, su.difficulty)
       IN  /\ {a, b} \subseteq NamesOf(su.game)
           /\ Store(su, Changed(su.game, r.edges), su.revealed_tags, r.msg,
                    "add_edge", su.rebuilt)

SessUnlink(a, b, today) ==
    /\ pc < MaxEvents
    /\ LET su == SetupIdle(today)
           r == IF su.rebuilt THEN [ok |-> FALSE, msg |-> M_NoLink, edges |-> {}]
                ELSE remove_edge(a, b)
       IN  /\ {a, b} \subseteq NamesOf(su.game)
           /\ Store(su, Changed(su.game, r.edges), su.revealed_tags, r.msg,
                    "remove_edge", su.rebuilt)

SessHint(today) ==
    /\ pc < MaxEvents
    /\ LET su == SetupIdle(today)
       IN  Store(su, su.game, su.revealed_tags,
                 IF su.rebuilt THEN give_hint_fresh(su.game) ELSE give_hint,
                 "give_hint", su.rebuilt)

SessCheck(today) ==
    /\ pc < MaxEvents
    /\ LET su == SetupIdle(today)
       IN  Store(su, su.game, su.revealed_tags,
                 IF su.rebuilt THEN is_complete_chain_fresh(su.game).msg
                 ELSE is_complete_chain.msg,
                 "is_complete_chain", su.rebuilt)

SessAutoSolve(today) ==
    /\ pc < MaxEvents
    /\ LET su == SetupIdle(today)
           filled == IF su.rebuilt THEN [set |-> su.game.solution_edges, alias |-> FALSE]
                     ELSE auto_solve
       IN  Store(su, [su.game EXCEPT !.edges = filled.set, !.alias = filled.alias],
                 su.revealed_tags, M_Filled, "auto_solve", su.rebuilt)

SessReset(today) ==
    /\ pc < MaxEvents
    /\ LET su == SetupIdle(today)
       IN  Store(su, [su.game EXCEPT !.edges = {}, !.alias = FALSE],
                 su.revealed_tags, M_Cleared, "reset", su.rebuilt)

\* Reveal selected tile, offered in Medium and Hard
SessReveal(name, today) ==
    /\ pc < MaxEvents
    /\ LET su == SetupIdle(today)
       IN  /\ su.difficulty \in {"Medium", "Hard"}
           /\ name \in NamesOf(su.game)
           /\ Store(su, su.game, su.revealed_tags \cup {name}, M_Revealed(name),
                    "reveal", su.rebuilt)

\* the options of the tile boxes: the names of the game the setup part leaves
Options(today) == NamesOf(SetupIdle(today).game)

\* every event but Auto-solve
NextSession ==
    \/ \E d \in Difficulties, today \in DaysRead(use_daily) : SessDifficulty(d, today)
    \/ \E today \in DaysRead(~use_daily) : SessDaily(today)
    \/ \E s \in Streams : SessSeed(s)
    \/ \E step \in {-1, 1} : SessStep(step)
    \/ \E today \in DaysRead(use_daily) : SessNew(today)
    \/ \E today \in DaysRead(use_daily) :
          \E a \in Options(today), b \in Options(today) : SessLink(a, b, today)
    \/ \E today \in DaysRead(use_daily) :
          \E a \in Options(today), b \in Options(today) : SessUnlink(a, b, today)
    \/ \E today \in DaysRead(use_daily) : SessHint(today)
    \/ \E today \in DaysRead(use_daily) : SessCheck(today)
    \/ \E today \in DaysRead(use_daily) : SessReset(today)
    \/ \E today \in DaysRead(use_daily) :
          \E name \in Options(today) : SessReveal(name, today)

SpecSession == InitSelect /\ [][NextSession]_vars

NextSessionAll ==
    \/ NextSession
    \/ \E today \in DaysRead(use_daily) : SessAutoSolve(today)

SpecSessionAll == InitSelect /\ [][NextSessionAll]_vars

(***************************************************************************)
(* What a run shows.  ", ".join(sorted(tags)) is one text per set of tags   *)
(* and is modelled by the set.                                             *)
(***************************************************************************)
\* display_rows(): the rows of the tile table
display_rows ==
    [i \in 1..Len(tiles) |->
        [Tile |-> tiles[i].name,
         Tags |-> IF difficulty = "Easy"
                  THEN [text |-> "tags", tags |-> tiles[i].tags]
                  ELSE IF tiles[i].name \in revealed_tags
                  THEN [text |-> "tags, eye", tags |-> tiles[i].tags]
                  ELSE [text |-> "hidden (reveal via Inspect)", tags |-> {}],
         Links |-> degree(tiles[i].name)]]

\* the lines under Current Links, one per link in sorted order
current_links ==
    [k \in 1..Cardinality(edges) |->
        LET e == sorted_edges(edges)[k]
        IN  [a |-> e[1], b |-> e[2], shared |-> share_tag(e[1], e[2], difficulty = "Hard")]]

\* st.toast(st.session_state.message), shown when the message is not empty
toast == IF message = Msg("") THEN <<>> ELSE <<message>>

(***************************************************************************)
(* Properties.                                                             *)
(***************************************************************************)

\* C1: in every state reached from the empty graph by add_edge and remove_edge
\* calls (any arguments, any difficulty, accepted or rejected), for every
\* registry and every max_degree >= 0, no tile has more than max_degree links.
C1_DegreeInvariant == \A t \in TileNames : degree(t) <= max_degree

\* an add_edge was rejected for the degree rule at a tile holding max_degree = 2
\* links, after accepted calls
C1_Witness ==
    /\ last.op = "add_edge" /\ ~last.ok /\ last.msg = M_Degree
    /\ max_degree = 2
    /\ \E t \in {last.a, last.b} : degree(t) = max_degree

\* C6: when add_edge(a, b, difficulty) succeeds and remove_edge(a, b) is called
\* next, the removal succeeds and edges is again the set it was before the add.
C6_RoundTrip ==
    follow.kind = "add_remove" =>
        /\ last.op = "remove_edge" /\ last.ok
        /\ edges = follow.origin

\* a link was added to a non-empty graph with the names in unsorted order, and
\* then removed
C6_Witness ==
    /\ follow.kind = "add_remove"
    /\ follow.origin # {}
    /\ Rank(last.a) > Rank(last.b)

\* C7: when add_edge(a, b, d) succeeds and the same call is made again, the
\* second call fails with the already-connected reason, also when a or b has
\* reached max_degree, and leaves edges as the first call left it.
C7_SecondAddRejected ==
    follow.kind = "add_add" =>
        /\ last.op = "add_edge" /\ ~last.ok
        /\ last.msg = M_Already
        /\ edges = last.before
        /\ edges = follow.origin \cup {normalize(last.a, last.b)}

\* the repeated call met a tile that the first call had brought to max_degree
C7_Witness ==
    /\ follow.kind = "add_add"
    /\ degree(last.a) = max_degree
    /\ last.msg = M_Already

\* the tags two registered tiles have in common, and those of them that are no decoys
C8_Common(a, b) == TagsOf(a) \cap TagsOf(b)
C8_Real(a, b) == {t \in C8_Common(a, b) : t[1] # "decoy:"}

\* C8: for two distinct registered tiles that are not linked and both below
\* max_degree, can_connect in Hard accepts exactly when one non-decoy tag is
\* shared (none, two or more, or decoys only are rejected), and in Easy and
\* Medium exactly when at least one tag of any kind is shared; the calls made
\* were answered by that rule.
C8_TagRule ==
    /\ \A a \in TileNames, b \in TileNames :
          (/\ a # b
           /\ normalize(a, b) \notin edges
           /\ degree(a) < max_degree
           /\ degree(b) < max_degree) =>
              /\ can_connect(a, b, "Hard").ok <=> Cardinality(C8_Real(a, b)) = 1
              /\ \A d \in {"Easy", "Medium"} :
                    can_connect(a, b, d).ok <=> C8_Common(a, b) # {}
    /\ (last.op = "add_edge" /\ last.ok) =>
          IF last.diff = "Hard" THEN Cardinality(C8_Real(last.a, last.b)) = 1
          ELSE C8_Common(last.a, last.b) # {}
    /\ (last.op = "add_edge" /\ last.msg = M_Hard) =>
          last.diff = "Hard" /\ Cardinality(C8_Real(last.a, last.b)) # 1
    /\ (last.op = "add_edge" /\ last.msg = M_NoTag) =>
          last.diff # "Hard" /\ C8_Common(last.a, last.b) = {}

\* a Hard link was accepted between tiles sharing one real tag and a decoy tag,
\* while another pair of the registry shares two real tags
C8_Witness ==
    /\ last.op = "add_edge" /\ last.diff = "Hard" /\ last.ok
    /\ C8_Common(last.a, last.b) # C8_Real(last.a, last.b)
    /\ \E a \in TileNames, b \in TileNames : Cardinality(C8_Real(a, b)) = 2 /\ a # b

\* the reason of the first check that fails, in the order unknown tile, self-link,
\* already connected, degree exceeded, tag rule
C9_FirstFailure(a, b, d) ==
    LET unknown == a \notin TileNames \/ b \notin TileNames
        linked == normalize(a, b) \in edges
        full == degree(a) >= max_degree \/ degree(b) >= max_degree
        tagfail == IF d = "Hard" THEN Cardinality(C8_Real(a, b)) # 1
                   ELSE C8_Common(a, b) = {}
    IN  CASE unknown -> M_NoTile
          [] ~unknown /\ a = b -> M_Self
          [] ~unknown /\ a # b /\ linked -> M_Already
          [] ~unknown /\ a # b /\ ~linked /\ full -> M_Degree
          [] ~unknown /\ a # b /\ ~linked /\ ~full /\ tagfail ->
                IF d = "Hard" THEN M_Hard ELSE M_NoTag
          [] OTHER -> Msg("")

\* C9: in every state and for every pair of names, can_connect gives the reason
\* of the first failing check in the order unknown tile, self-link, already
\* connected, degree exceeded, tag rule; a registered tile with itself gives the
\* self-link reason whatever its degree, an unregistered name gives the
\* unknown-tile reason also when both names are equal; a rejected add_edge
\* returned that reason.
C9_ReasonOrder ==
    /\ \A a \in Args, b \in Args, d \in Difficulties :
          /\ can_connect(a, b, d).msg = C9_FirstFailure(a, b, d)
          /\ can_connect(a, b, d).ok <=> C9_FirstFailure(a, b, d) = Msg("")
    /\ \A a \in TileNames, d \in Difficulties :
          can_connect(a, a, d) = [ok |-> FALSE, msg |-> M_Self]
    /\ \A d \in Difficulties :
          can_connect(Unknown, Unknown, d) = [ok |-> FALSE, msg |-> M_NoTile]
    /\ (last.op = "add_edge" /\ ~last.ok) =>
          last.msg = C9_FirstFailure(last.a, last.b, last.diff)

\* a self-link was asked for a tile that already holds max_degree links
C9_Witness ==
    /\ last.op = "add_edge" /\ ~last.ok
    /\ last.a = last.b /\ last.a \in TileNames
    /\ max_degree > 0 /\ degree(last.a) = max_degree
    /\ last.msg = M_Self

\* the least reference link missing from edges, as a hint
C10_Expected ==
    LET missing == solution_edges \ edges
    IN  IF missing = {} THEN M_NoHints
        ELSE LET m == CHOOSE e \in missing : \A f \in missing :
                         \/ f = e
                         \/ Rank(e[1]) < Rank(f[1])
                         \/ e[1] = f[1] /\ Rank(e[2]) < Rank(f[2])
             IN  M_Hint(m[1], m[2])

\* C10: give_hint suggests the least link of the reference solution, in the
\* lexicographic order of the sorted pairs, that is not in edges, and gives the
\* no-hints sentinel exactly when every reference link is in edges; the call
\* leaves edges as it was and the reference solution as the constructor set it.
C10_HintLeast ==
    /\ give_hint = C10_Expected
    /\ give_hint = M_NoHints <=> solution_edges \subseteq edges
    /\ last.op = "give_hint" =>
          /\ last.msg = C10_Expected
          /\ edges = last.before
          /\ \E r \in Registries :
                /\ r.tiles = tiles
                /\ solution_edges = {normalize(e[1], e[2]) : e \in r.sol}

\* a hint named the third reference link, the two before it in the order being
\* linked already and the pairs differing in their second name only
C10_Witness ==
    /\ last.op = "give_hint"
    /\ last.msg = M_Hint("Bee", "Doe")
    /\ {<<"Ant", "Doe">>, <<"Bee", "Cow">>} \subseteq edges

\* the links are those of one path through all the tiles: the tiles can be put in
\* a row so that the links are exactly the pairs of neighbours in the row
C5_IsPathThroughAll ==
    /\ Cardinality(edges) = Len(tiles) - 1
    /\ \E perm \in Permutations(TileNames) :
          edges = {normalize(perm[tiles[i].name], perm[tiles[i + 1].name]) :
                      i \in 1..(Len(tiles) - 1)}

\* no set of tiles is cut off: every proper non-empty part has a link leaving it
C5_Connected ==
    \A part \in (SUBSET TileNames) \ {{}, TileNames} :
        \E e \in edges : (e[1] \in part) # (e[2] \in part)

\* connected, two tiles with one link, all others with two, one link fewer than tiles
C5_ChainShape ==
    /\ C5_Connected
    /\ Cardinality({t \in TileNames : degree(t) = 1}) = 2
    /\ \A t \in TileNames : degree(t) \in {1, 2}
    /\ Cardinality(edges) = Len(tiles) - 1

\* C5: for a registry of at least two tiles and any set of canonical pairs of
\* distinct registered tiles as edges, is_complete_chain returns true exactly
\* when the edges form one simple path through all the tiles (connected, two
\* tiles of degree 1, the others of degree 2, tileCount - 1 edges).
C5_CompleteIffPath ==
    /\ is_complete_chain.ok <=> C5_IsPathThroughAll
    /\ is_complete_chain.ok <=> C5_ChainShape
    /\ is_complete_chain.ok <=> is_complete_chain.msg = M_Complete
    /\ last.op = "is_complete_chain" => (last.ok <=> C5_IsPathThroughAll)

\* the check rejected links that pass the count and degree tests and are not
\* connected: a path beside a cycle
C5_Witness ==
    /\ last.op = "is_complete_chain" /\ ~last.ok
    /\ last.msg = M_Disconnected
    /\ edges # {}

\* C2: on every puzzle of the catalog, built for any difficulty, auto_solve
\* called in any reachable link state leaves links for which is_complete_chain
\* returns (true, "Chain complete!").
C2_AutoSolveComplete ==
    last.op = "auto_solve" => is_complete_chain = [ok |-> TRUE, msg |-> M_Complete]

\* auto_solve filled in the second puzzle, built for Hard, whose reference
\* links add_edge cannot all make
C2_Witness ==
    /\ last.op = "auto_solve"
    /\ puzzle_index = 1 /\ difficulty = "Hard"
    /\ \E e \in edges : share_tag(e[1], e[2], FALSE) = {}

\* C3: on every catalog puzzle and difficulty, add_edge on the reference links
\* in the order of the chain, from the empty graph, succeeds at every call, and
\* is_complete_chain then returns (true, "Chain complete!").
C3_InOrderAllSucceed ==
    /\ last.op = "add_edge" => last.ok
    /\ pc = ChainLen + 1 => last = Call("is_complete_chain", "", "", "", TRUE, M_Complete)

\* C4: on a catalog puzzle, whatever add_edge, remove_edge, auto_solve and
\* reset-links calls were made, every link in edges joins two tiles that share
\* at least one tag.
C4_LinksShareTag ==
    \A e \in edges : share_tag(e[1], e[2], FALSE) # {}

\* C11: whatever add_edge, remove_edge, give_hint, is_complete_chain, auto_solve
\* and reset-links calls are made, solution_edges stays the normalized set the
\* constructor was given; edges is never the same set object as solution_edges,
\* so calls after auto_solve change edges and leave solution_edges alone.
C11_ReferenceFrozen ==
    /\ ~alias
    /\ \E r \in Registries :
          /\ r.tiles = tiles
          /\ solution_edges = {normalize(e[1], e[2]) : e \in r.sol}

\* a link was removed from the links auto_solve had filled in: with max_degree 1
\* add_edge cannot build the reference links of the four-tile registry
C11_Witness ==
    /\ last.op = "remove_edge" /\ last.ok
    /\ max_degree = 1 /\ Len(tiles) = 4
    /\ last.before = solution_edges
    /\ edges # solution_edges

\* the tiles of the catalog puzzle the game was built from, and their tags
C12_BaseTiles == PUZZLES[(puzzle_index % Len(PUZZLES)) + 1].tiles
C12_BaseTags(name) ==
    C12_BaseTiles[CHOOSE i \in 1..Len(C12_BaseTiles) : C12_BaseTiles[i].name = name].tags

\* the answer of can_connect(a, b, "Easy") on the puzzle built for Easy, in the
\* link state of the current game
C12_EasyConnect(a, b) ==
    IF a = b THEN [ok |-> FALSE, msg |-> M_Self]
    ELSE IF normalize(a, b) \in edges THEN [ok |-> FALSE, msg |-> M_Already]
    ELSE IF degree(a) >= DefaultMaxDegree \/ degree(b) >= DefaultMaxDegree
         THEN [ok |-> FALSE, msg |-> M_Degree]
    ELSE IF C12_BaseTags(a) \cap C12_BaseTags(b) = {} THEN [ok |-> FALSE, msg |-> M_NoTag]
    ELSE [ok |-> TRUE, msg |-> Msg("")]

\* C12: on every catalog puzzle, for every seed and every difficulty with
\* decoys, two distinct tiles share after add_decoys_non_overlapping exactly the
\* tags their base tiles share, and in every link state can_connect on the
\* Medium-built puzzle answers every pair as it does on the Easy-built puzzle.
C12_DecoysKeepSharing ==
    /\ \A a \in TileNames, b \in TileNames :
          a # b => /\ share_tag(a, b, FALSE) = C12_BaseTags(a) \cap C12_BaseTags(b)
                   /\ share_tag(a, b, TRUE) = C12_BaseTags(a) \cap C12_BaseTags(b)
    /\ difficulty = "Medium" =>
          \A a \in TileNames, b \in TileNames :
             /\ can_connect(a, b, "Medium") = C12_EasyConnect(a, b)
             /\ can_connect(a, b, "Easy") = C12_EasyConnect(a, b)

\* links were made on a Medium-built puzzle in which two distinct tiles drew the
\* same decoy number
C12_Witness ==
    /\ difficulty = "Medium"
    /\ last.op = "add_edge" /\ edges # {}
    /\ \E a \in TileNames, b \in TileNames :
          /\ a # b
          /\ \E ta \in TagsOf(a), tb \in TagsOf(b) :
                ta[1] = "decoy:" /\ tb[1] = "decoy:" /\ ta[3] = tb[3]

\* the number in 0..|PUZZLES|-1 that differs from x by a multiple of |PUZZLES|
C13_Residue(x) ==
    CHOOSE r \in 0..(Len(PUZZLES) - 1) :
        \E k \in (-(MaxIndex + MaxDay + MaxOffset))..(MaxIndex + MaxDay + MaxOffset) :
            x = k * Len(PUZZLES) + r

\* the game holds the tiles (decoys aside) and the reference links of puzzle p
C13_IsPuzzle(p) ==
    /\ Len(tiles) = Len(PUZZLES[p + 1].tiles)
    /\ \A i \in 1..Len(tiles) :
          /\ tiles[i].name = PUZZLES[p + 1].tiles[i].name
          /\ {t \in tiles[i].tags : t[1] # "decoy:"} = PUZZLES[p + 1].tiles[i].tags
    /\ solution_edges = {normalize(e[1], e[2]) : e \in PUZZLES[p + 1].sol}

\* C13: for every integer index, negative ones and those from the catalog size
\* on included, build_puzzle_by_index builds the puzzle at index mod |PUZZLES|;
\* daily_index lies in 0..|PUZZLES|-1 and is the day ordinal plus the offset
\* mod |PUZZLES|, for every offset, negative ones included.
C13_SelectWraps ==
    /\ C13_IsPuzzle(C13_Residue(puzzle_index))
    /\ \A p \in 0..(Len(PUZZLES) - 1) : p # C13_Residue(puzzle_index) => ~C13_IsPuzzle(p)
    /\ last.op = "daily_index" =>
          /\ puzzle_index \in 0..(Len(PUZZLES) - 1)
          /\ puzzle_index = C13_Residue(last.today + last.seed_offset)
    /\ \A today \in Days, seed_offset \in (-MaxOffset)..MaxOffset :
          /\ daily_index(today, seed_offset) \in 0..(Len(PUZZLES) - 1)
          /\ daily_index(today, seed_offset) = C13_Residue(today + seed_offset)

\* a game was built for a negative index that is no multiple of the catalog size
C13_Witness ==
    /\ last.op = "build_puzzle_by_index"
    /\ puzzle_index < 0
    /\ C13_Residue(puzzle_index) # 0

\* checks 1 to 4: one link fewer than tiles, no tile without a link, two tiles
\* with one link and all others with two
C14_Checks1to4 ==
    /\ Cardinality(edges) = Len(tiles) - 1
    /\ \A t \in TileNames : degree(t) # 0
    /\ Cardinality({t \in TileNames : degree(t) = 1}) = 2
    /\ \A t \in TileNames : degree(t) \in {1, 2}

\* C14 as stated: in every link state add_edge and remove_edge reach in which
\* checks 1 to 4 pass, the traversal visits every tile and is_complete_chain
\* does not return the disconnected outcome.
C14_TraversalNeverFails ==
    C14_Checks1to4 => is_complete_chain.msg # M_Disconnected

\* C14 as amended: when checks 1 to 4 pass the traversal visits every tile
\* exactly when the links are connected; is_complete_chain returns the
\* disconnected outcome exactly when checks 1 to 4 pass and the links are a path
\* beside one or more cycles, which needs at least five tiles.
C14_TraversalFailsOnCycles ==
    /\ is_complete_chain.msg = M_Disconnected <=> (C14_Checks1to4 /\ ~C5_Connected)
    /\ C14_Checks1to4 => (is_complete_chain.ok <=> C5_Connected)
    /\ Len(tiles) < 5 => is_complete_chain.msg # M_Disconnected
    /\ last.op = "is_complete_chain" =>
          (last.msg = M_Disconnected <=> (C14_Checks1to4 /\ ~C5_Connected))

\* on five tiles the check met links that pass checks 1 to 4 and are a path
\* beside a triangle
C14_Witness ==
    /\ last.op = "is_complete_chain" /\ ~last.ok
    /\ C14_Checks1to4 /\ ~C5_Connected
    /\ Len(tiles) = 5
    /\ edges = last.before

\* C15: a failing mutator call returns its pair and leaves edges as it was:
\* remove_edge of a pair that is not linked, unregistered names included, returns
\* (false, no-such-link), and add_edge of a rejected pair (unknown tile,
\* self-link, duplicate, degree exceeded, tag rule unmet) returns false with the
\* reason of can_connect.
C15_FailuresChangeNothing ==
    /\ \A a \in Args, b \in Args :
          /\ normalize(a, b) \notin edges =>
                remove_edge(a, b) = [ok |-> FALSE, msg |-> M_NoLink, edges |-> edges]
          /\ \A d \in Difficulties :
                ~can_connect(a, b, d).ok =>
                    add_edge(a, b, d) =
                        [ok |-> FALSE, msg |-> can_connect(a, b, d).msg, edges |-> edges]
    /\ (last.op \in {"add_edge", "remove_edge"} /\ ~last.ok) =>
          /\ edges = last.before
          /\ last.msg \in {M_NoTile, M_Self, M_Already, M_Degree, M_Hard, M_NoTag, M_NoLink}
          /\ last.op = "remove_edge" <=> last.msg = M_NoLink
    /\ (last.op = "remove_edge" /\ last.ok) => normalize(last.a, last.b) \in last.before

\* remove_edge was called with an unregistered name while links exist
C15_Witness ==
    /\ last.op = "remove_edge" /\ ~last.ok
    /\ last.a = Unknown /\ last.b \in TileNames
    /\ last.msg = M_NoLink
    /\ edges # {}

\* C16: links are unordered.  In every state add_edge(a, b, d) and
\* add_edge(b, a, d) return the same flag and the same edges; after a successful
\* add_edge(a, b, d) the call add_edge(b, a, d) fails as already connected and
\* remove_edge(b, a) removes the link; every element of edges is a sorted pair of
\* two distinct registered tile names.
C16_LinksUnordered ==
    /\ \A a \in Args, b \in Args, d \in Difficulties :
          /\ add_edge(a, b, d).ok = add_edge(b, a, d).ok
          /\ add_edge(a, b, d).edges = add_edge(b, a, d).edges
          /\ remove_edge(a, b).ok = remove_edge(b, a).ok
          /\ remove_edge(a, b).edges = remove_edge(b, a).edges
    /\ (last.op = "add_edge" /\ last.ok) =>
          /\ add_edge(last.b, last.a, last.diff) =
                [ok |-> FALSE, msg |-> M_Already, edges |-> edges]
          /\ remove_edge(last.b, last.a) =
                [ok |-> TRUE, msg |-> M_Removed(last.b, last.a), edges |-> last.before]
          /\ Cardinality(edges) = Cardinality(last.before) + 1
    /\ \A e \in edges :
          /\ e[1] \in TileNames /\ e[2] \in TileNames
          /\ e[1] # e[2]
          /\ Rank(e[1]) < Rank(e[2])

\* a link was added with its names given in descending order, beside other links
C16_Witness ==
    /\ last.op = "add_edge" /\ last.ok
    /\ Rank(last.a) > Rank(last.b)
    /\ <<last.b, last.a>> \in edges
    /\ last.before # {}

\* the decoy tags of the i-th tile of the game
C17_Decoys(i) == {t \in tiles[i].tags : t[1] = "decoy:"}

\* C17: on every catalog puzzle and for every seed, build_puzzle_by_index gives
\* each tile exactly 1 decoy tag in Medium, exactly 2 distinct decoy tags in Hard
\* and none in Easy, and leaves the real tags of the tile as the catalog has them.
C17_DecoyCount ==
    \A i \in 1..Len(tiles) :
        /\ Cardinality(C17_Decoys(i)) =
              (CASE difficulty = "Easy" -> 0
                 [] difficulty = "Medium" -> 1
                 [] difficulty = "Hard" -> 2)
        /\ tiles[i].tags \ C17_Decoys(i) = C12_BaseTiles[i].tags

\* C18: on every catalog puzzle and difficulty, from the empty graph, give_hint
\* followed by add_edge on the hinted pair succeeds every time, and after
\* tileCount - 1 such rounds give_hint returns the no-hints sentinel and
\* is_complete_chain returns true.
C18_HintsLeadToChain ==
    /\ last.op = "add_edge" => last.ok
    /\ pc = 2 * HintRounds + 1 => last.msg = M_NoHints
    /\ pc = 2 * HintRounds + 2 => (last.ok /\ last.msg = M_Complete)

\* every link joins registered tiles that meet the tag rule of the selected difficulty
C19_TagRuleHolds ==
    \A e \in edges :
        /\ e[1] \in TileNames /\ e[2] \in TileNames
        /\ IF difficulty = "Hard" THEN Cardinality(C8_Real(e[1], e[2])) = 1
           ELSE C8_Common(e[1], e[2]) # {}

\* the game is the puzzle of the selected index, with decoys unless Easy is selected
C19_GameMatches ==
    /\ puzzle_index \in 0..(Len(PUZZLES) - 1)
    /\ C13_IsPuzzle(puzzle_index)
    /\ \A i \in 1..Len(tiles) : (C17_Decoys(i) = {}) <=> (difficulty = "Easy")

\* C19: after any sequence of page events without Auto-solve (difficulty change,
\* daily box, seed, prev and next puzzle, new puzzle, link, unlink, reset links,
\* hint, check, reveal), every link of the game meets the tag rule of the
\* selected difficulty; a run that changes the difficulty or the puzzle index
\* leaves a game built anew for them, holding no link and no revealed tile
\* but what the button of that same run added to the new game.
C19_SessionLinksValid ==
    /\ [](C19_TagRuleHolds /\ C19_GameMatches)
    /\ [][(difficulty' # difficulty \/ puzzle_index' # puzzle_index) =>
            /\ Cardinality(edges') <= (IF last'.op = "add_edge" THEN 1 ELSE 0)
            /\ Cardinality(revealed_tags') <= (IF last'.op = "reveal" THEN 1 ELSE 0)
            /\ difficulty' # difficulty => (edges' = {} /\ revealed_tags' = {})]_vars

\* links were made, another difficulty was selected, and a link was made in the
\* game built for Hard
C19_Witness ==
    /\ follow.kind = "replaced" /\ follow.origin # {}
    /\ difficulty = "Hard"
    /\ last.op = "add_edge" /\ edges # {}

\* C20: in Medium and Hard no output of a run (the rows of the tile table, the
\* lines of the current links, the feedback message of a link action) shows a
\* tag of a tile that is not in the revealed set; in Easy the table shows the
\* tags of every tile.
C20_TagsHidden ==
    /\ difficulty \in {"Medium", "Hard"} =>
          /\ \A i \in 1..Len(display_rows) :
                display_rows[i].Tags.tags # {} => display_rows[i].Tile \in revealed_tags
          /\ \A k \in 1..Len(current_links) :
                current_links[k].shared # {} =>
                    {current_links[k].a, current_links[k].b} \subseteq revealed_tags
          /\ \A k \in 1..Len(toast) :
                toast[k].shared # {} => {toast[k].a, toast[k].b} \subseteq revealed_tags
    /\ difficulty = "Easy" =>
          \A i \in 1..Len(display_rows) : display_rows[i].Tags.tags = tiles[i].tags

====
